---- MODULE Spec2Model ----
(***************************************************************************)
(* Model of pvpro (src/app/core.py): the timestamp normaliser              *)
(* to_beijing_timestamp, the canonical namer Pivor.rename and the archival *)
(* engine Pivor.fit, over a filesystem of named files.                     *)
(*                                                                         *)
(* Strings are sequences of one-character strings.  The two-character      *)
(* markers "上午" / "下午" are written <<"shang","wu">> / <<"xia","wu">>.  *)
(***************************************************************************)
EXTENDS Integers, Sequences, FiniteSets, TLC

VARIABLES
    fs,               \* the files on disk: a set of [dir, stem, suffix, id, time, model]
    pc,               \* "idle" | "loop" | "done": position inside Pivor.fit
    work_dir,         \* area walked by the current fit run
    handle_duplicate, \* argument of the current fit run
    todo,             \* files_to_process not yet visited (paths)
    total_files,
    success_count,
    duplicate_count,
    snapshot_count,
    error_count,
    skipped,          \* number of iterations that left through `continue`
    last,             \* what the latest loop iteration did
    fs0,              \* the files on disk when the current run started
    runs,             \* fit runs started so far
    faults,           \* filesystem failures raised so far in the current run
    locale_en,        \* does strptime's %p accept "AM"/"PM" (process locale)
    time_str,         \* input of the normaliser run
    tpc,              \* position inside to_beijing_timestamp
    result            \* value returned by to_beijing_timestamp

vars == <<fs, pc, work_dir, handle_duplicate, todo, total_files, success_count,
          duplicate_count, snapshot_count, error_count, skipped, last, fs0,
          runs, faults, locale_en, time_str, tpc, result>>

fitVars == <<fs, pc, work_dir, handle_duplicate, todo, total_files,
             success_count, duplicate_count, snapshot_count, error_count,
             skipped, last, fs0, runs, faults>>

----------------------------------------------------------------------------
(* Strings *)

DigitChars == <<"0", "1", "2", "3", "4", "5", "6", "7", "8", "9">>

IsDigit(c) == \E i \in 1..10 : DigitChars[i] = c

DigitVal(c) == (CHOOSE i \in 1..10 : DigitChars[i] = c) - 1

Digit(n) == DigitChars[n + 1]

\* "%02d" / "%04d" as strftime writes the fields
Pad2(n) == <<Digit((n \div 10) % 10), Digit(n % 10)>>

Pad4(n) == <<Digit((n \div 1000) % 10), Digit((n \div 100) % 10),
             Digit((n \div 10) % 10), Digit(n % 10)>>

\* int() of a digit string
RECURSIVE ToInt(_)
ToInt(s) == IF s = <<>> THEN 0
            ELSE 10 * ToInt(SubSeq(s, 1, Len(s) - 1)) + DigitVal(s[Len(s)])

AllDigits(s) == \A i \in 1..Len(s) : IsDigit(s[i])

StartsWith(s, p) == Len(s) >= Len(p) /\ SubSeq(s, 1, Len(p)) = p

\* `sub in s`
Contains(s, sub) ==
    \E i \in 1..Len(s) : i + Len(sub) - 1 <= Len(s)
                         /\ SubSeq(s, i, i + Len(sub) - 1) = sub

\* s.replace(sub, rep), leftmost non-overlapping occurrences
RECURSIVE Replace(_, _, _)
Replace(s, sub, rep) ==
    IF s = <<>> THEN <<>>
    ELSE IF StartsWith(s, sub)
         THEN rep \o Replace(SubSeq(s, Len(sub) + 1, Len(s)), sub, rep)
         ELSE <<s[1]>> \o Replace(SubSeq(s, 2, Len(s)), sub, rep)

\* s.split(sep) for a one-character separator
RECURSIVE Split(_, _)
Split(s, sep) ==
    IF \A i \in 1..Len(s) : s[i] # sep THEN <<s>>
    ELSE LET k == CHOOSE i \in 1..Len(s) :
                      s[i] = sep /\ \A j \in 1..(i - 1) : s[j] # sep
         IN <<SubSeq(s, 1, k - 1)>> \o Split(SubSeq(s, k + 1, Len(s)), sep)

Shangwu == <<"shang", "wu">>
Xiawu   == <<"xia", "wu">>
ERROR   == <<"E", "R", "R", "O", "R">>
UNKNOWN == <<"U", "N", "K", "N", "O", "W", "N">>

----------------------------------------------------------------------------
(* datetime *)

IsLeap(y) == (y % 4 = 0 /\ y % 100 # 0) \/ y % 400 = 0

DaysInMonth(y, m) ==
    IF m = 2 THEN (IF IsLeap(y) THEN 29 ELSE 28)
    ELSE IF m \in {4, 6, 9, 11} THEN 30 ELSE 31

\* datetime(y, mo, d, H, M, S) raises ValueError unless this holds
ValidDateTime(y, mo, d, H, M, S) ==
    /\ y \in 1..9999
    /\ mo \in 1..12
    /\ d >= 1 /\ d <= DaysInMonth(y, mo)
    /\ H \in 0..23
    /\ M \in 0..59
    /\ S \in 0..59

\* dt.strftime("%Y%m%d%H%M%S")
Strftime(y, mo, d, H, M, S) ==
    Pad4(y) \o Pad2(mo) \o Pad2(d) \o Pad2(H) \o Pad2(M) \o Pad2(S)

\* the positional shape "dddd:dd:dd dd:dd:dd" of the first 19 characters
ExifDigitsOk(s) ==
    /\ Len(s) >= 19
    /\ \A i \in {1, 2, 3, 4, 6, 7, 9, 10, 12, 13, 15, 16, 18, 19} : IsDigit(s[i])
    /\ s[5] = ":" /\ s[8] = ":" /\ s[11] = " " /\ s[14] = ":" /\ s[17] = ":"

Field(s, a, b) == ToInt(SubSeq(s, a, b))

Failed == [ok |-> FALSE, value |-> <<>>]
Returned(v) == [ok |-> TRUE, value |-> v]

----------------------------------------------------------------------------
(* to_beijing_timestamp *)

\* line 31: time_str[4] == ":" and time_str[7] == ":" and time_str[10] == " "
ExifShape(s) == Len(s) >= 19 /\ s[5] = ":" /\ s[8] = ":" /\ s[11] = " "

HasMarker(s) == Contains(s, Shangwu) \/ Contains(s, Xiawu)

\* time_str.replace("上午", " AM").replace("下午", " PM")
TimeClean(s) == Replace(Replace(s, Shangwu, <<" ", "A", "M">>),
                        Xiawu, <<" ", "P", "M">>)

\* datetime.strptime(s, "%Y:%m:%d %I:%M:%S %p") for two-digit fields; loc says
\* whether the locale's %p names are "AM"/"PM".  ok = FALSE is ValueError.
Strptime12(s, loc) ==
    IF /\ Len(s) = 22
       /\ ExifDigitsOk(s)
       /\ loc
       /\ s[20] = " " /\ s[21] \in {"A", "P"} /\ s[22] = "M"
       /\ Field(s, 6, 7) \in 1..12
       /\ Field(s, 9, 10) \in 1..31
       /\ Field(s, 12, 13) \in 1..12
       /\ Field(s, 15, 16) \in 0..59
       /\ Field(s, 18, 19) \in 0..61
    THEN LET I == Field(s, 12, 13)
             H == IF s[21] = "P" THEN (IF I = 12 THEN 12 ELSE I + 12)
                  ELSE (IF I = 12 THEN 0 ELSE I)
         IN IF ValidDateTime(Field(s, 1, 4), Field(s, 6, 7), Field(s, 9, 10),
                             H, Field(s, 15, 16), Field(s, 18, 19))
            THEN Returned(Strftime(Field(s, 1, 4), Field(s, 6, 7),
                                   Field(s, 9, 10), H, Field(s, 15, 16),
                                   Field(s, 18, 19)))
            ELSE Failed
    ELSE Failed

\* datetime.strptime(s, "%Y:%m:%d %H:%M:%S") for two-digit fields
Strptime24(s) ==
    IF /\ Len(s) = 19
       /\ ExifDigitsOk(s)
       /\ ValidDateTime(Field(s, 1, 4), Field(s, 6, 7), Field(s, 9, 10),
                        Field(s, 12, 13), Field(s, 15, 16), Field(s, 18, 19))
    THEN Returned(Strftime(Field(s, 1, 4), Field(s, 6, 7), Field(s, 9, 10),
                           Field(s, 12, 13), Field(s, 15, 16), Field(s, 18, 19)))
    ELSE Failed

\* re.match(r'(\d{4}):(\d{2}):(\d{2}) (\d{2}):(\d{2}):(\d{2})(上午|下午)', s)
MarkerMatch(s) ==
    /\ Len(s) >= 21
    /\ ExifDigitsOk(s)
    /\ SubSeq(s, 20, 21) \in {Shangwu, Xiawu}

TolerantHourUnshifted(hour, ampm) ==
    IF ampm = Xiawu THEN hour
    ELSE IF ampm = Shangwu THEN (IF hour = 12 THEN 0 ELSE hour)
    ELSE hour

\* the hour correction of lines 55-62
TolerantHour(hour, ampm) ==
    IF ampm = Xiawu THEN (IF hour < 12 THEN hour + 12 ELSE hour)
    ELSE IF ampm = Shangwu THEN (IF hour = 12 THEN 0 ELSE hour)
    ELSE hour

\* lines 48-73, given a match; ok = FALSE is datetime(...) raising ValueError
TolerantParse(s) ==
    LET hour == TolerantHour(Field(s, 12, 13), SubSeq(s, 20, 21))
    IN IF ValidDateTime(Field(s, 1, 4), Field(s, 6, 7), Field(s, 9, 10),
                        hour, Field(s, 15, 16), Field(s, 18, 19))
       THEN Returned(Strftime(Field(s, 1, 4), Field(s, 6, 7), Field(s, 9, 10),
                              hour, Field(s, 15, 16), Field(s, 18, 19)))
       ELSE Failed

\* lines 82-96 for text that is neither a digit string nor a date: isdigit() is
\* false and dateutil's parser.parse raises
GeneralParse(s) == Failed

to_beijing_timestamp(s, loc) ==
    LET r == IF ExifShape(s)
             THEN IF HasMarker(s)
                  THEN IF Strptime12(TimeClean(s), loc).ok
                       THEN Strptime12(TimeClean(s), loc)
                       ELSE IF MarkerMatch(s) THEN TolerantParse(s)
                            ELSE GeneralParse(s)
                  ELSE Strptime24(s)
             ELSE GeneralParse(s)
    IN IF r.ok THEN r.value ELSE ERROR

----------------------------------------------------------------------------
(* Paths and the filesystem *)

\* root/__process/<sub>, root/archive/<bucket>/<p|v>, root/snapshot, root/duplicates
ProcessDir(sub)        == [area |-> "process", bucket |-> <<>>, kind |-> sub]
ArchiveDir(bucket, pv) == [area |-> "archive", bucket |-> bucket, kind |-> pv]
SnapshotDir            == [area |-> "snapshot", bucket |-> <<>>, kind |-> ""]
DuplicatesDir          == [area |-> "duplicates", bucket |-> <<>>, kind |-> ""]
NoDir                  == [area |-> "", bucket |-> <<>>, kind |-> ""]

PathOf(dir, stem, suffix) == [dir |-> dir, stem |-> stem, suffix |-> suffix]
NoPath == PathOf(NoDir, <<>>, "")

\* the same directory entry: parent directory and file name
Join(dir, p) == PathOf(dir, p.stem, p.suffix)

TARGET_IMAGES == {".jpg", ".jpeg", ".png", ".cr2", ".arw"}
TARGET_VIDEOS == {".mov", ".mp4", ".avi", ".mkv"}

\* suffix.lower() on the suffixes that occur
Lower(suffix) == IF suffix = ".JPG" THEN ".jpg" ELSE suffix

Exists(fsys, p) == \E e \in fsys : e.path = p

At(fsys, p) == CHOOSE e \in fsys : e.path = p

Ids(fsys) == {e.file.id : e \in fsys}

\* Path.rename(dst) on an existing src: os.rename, which replaces an existing
\* regular file at dst without a word
Move(fsys, src, dst) ==
    IF src = dst THEN fsys
    ELSE {e \in fsys : e.path # src /\ e.path # dst}
             \cup {[path |-> dst, file |-> At(fsys, src).file]}

\* Pivor._iter_dir: the eligible files below work_dir
Eligible(p) ==
    /\ Lower(p.suffix) \in TARGET_IMAGES \cup TARGET_VIDEOS
    /\ ~StartsWith(p.stem, <<".", "_">>)

IterDir(fsys, area) == {e.path : e \in {f \in fsys : f.path.dir.area = area
                                                    /\ Eligible(f.path)}}

----------------------------------------------------------------------------
(* Pivor._extract_metadata and Pivor.rename *)

\* str(tag).strip()
RECURSIVE Strip(_)
Strip(s) == IF s = <<>> THEN s
            ELSE IF s[1] = " " THEN Strip(Tail(s))
            ELSE IF s[Len(s)] = " " THEN Strip(SubSeq(s, 1, Len(s) - 1))
            ELSE s

\* the tags the file carries; a missing model tag leaves "UNKNOWN".  A missing
\* file makes file.stat() raise (ok = FALSE).  Files always carry a time tag.
ExtractMetadata(fsys, file) ==
    IF Exists(fsys, file)
    THEN LET f == At(fsys, file).file
         IN [ok |-> TRUE, time |-> f.time,
             model |-> IF f.model = <<>> THEN UNKNOWN ELSE Strip(f.model)]
    ELSE [ok |-> FALSE, time |-> <<>>, model |-> <<>>]

\* rename's default for mv
DefaultMvMoved == TRUE
DefaultMv == FALSE

\* line 317: three fields and re.fullmatch(r"\d{14}", this_name[0])
AlreadyNamed(stem) ==
    LET this_name == Split(stem, "_")
    IN Len(this_name) = 3 /\ Len(this_name[1]) = 14 /\ AllDigits(this_name[1])

\* lines 319-323: the composed name, beside the file
NewName(file, meta, loc) ==
    LET tstr        == to_beijing_timestamp(meta.time, loc)
        model_clean == Replace(meta.model, <<" ">>, <<"-">>)
        fname_clean == Replace(Replace(file.stem, <<"_">>, <<"-">>), <<" ">>, <<"-">>)
    IN PathOf(file.dir, tstr \o <<"_">> \o model_clean \o <<"_">> \o fname_clean,
              file.suffix)

\* lines 319-324 for the metadata read
Compose(fsys, file, mv, meta, loc) ==
    IF ~meta.ok THEN [ok |-> FALSE, path |-> NoPath, fs |-> fsys]
    ELSE [ok |-> TRUE, path |-> NewName(file, meta, loc),
          fs |-> IF mv THEN Move(fsys, file, NewName(file, meta, loc)) ELSE fsys]

\* Pivor.rename(file, mv): [ok, path, fs]; ok = FALSE is an exception
rename(fsys, file, mv, loc) ==
    IF AlreadyNamed(file.stem)
    THEN [ok |-> TRUE, path |-> file, fs |-> fsys]
    ELSE Compose(fsys, file, mv, ExtractMetadata(fsys, file), loc)

----------------------------------------------------------------------------
(* Pivor.fit: one iteration of the loop over files_to_process *)

Take(s, n) == SubSeq(s, 1, IF Len(s) < n THEN Len(s) ELSE n)

\* lines 248-250 and the branch taken at lines 253-269, for r = rename(fp)
Classify(r, parts, hd) ==
    IF Len(parts) # 3
    THEN [branch |-> "unpack-raised", x |-> r.path, fs |-> r.fs,
          new_fp |-> NoPath, model |-> <<>>]
    ELSE [branch |-> IF Exists(r.fs, Join(ArchiveDir(Take(parts[1], 6),
                                     IF Lower(r.path.suffix) \in TARGET_IMAGES
                                     THEN "p" ELSE "v"), r.path))
                     THEN (IF hd THEN "collision" ELSE "skip")
                     ELSE IF parts[2] = UNKNOWN THEN "snapshot"
                     ELSE "direct",
          x |-> r.path, fs |-> r.fs,
          new_fp |-> Join(ArchiveDir(Take(parts[1], 6),
                          IF Lower(r.path.suffix) \in TARGET_IMAGES
                          THEN "p" ELSE "v"), r.path),
          model |-> parts[2]]

\* line 247 and what follows it
Renamed(r, hd) ==
    IF ~r.ok
    THEN [branch |-> "rename-raised", x |-> NoPath, fs |-> r.fs,
          new_fp |-> NoPath, model |-> <<>>]
    ELSE Classify(r, Split(r.path.stem, "_"), hd)

FitPlan(fsys, fp, hd, loc) == Renamed(rename(fsys, fp, DefaultMv, loc), hd)

\* the filesystem calls of the branch that the environment can make raise OSError
Faults(plan) ==
    {"none"}
    \cup (IF plan.branch = "collision" THEN {"occupant"} ELSE {})
    \cup (IF plan.branch \in {"collision", "snapshot", "direct"}
          THEN {"incoming"} ELSE {})

Step(fsys, plan, target, occupant, counted) ==
    [fs |-> fsys, x |-> plan.x, new_fp |-> plan.new_fp, target |-> target,
     branch |-> plan.branch, model |-> plan.model, occupant |-> occupant,
     counted |-> counted]

\* lines 271-280: mkdir, fp.rename(new_fp), success_count or the except clause
MoveIncoming(fsys, plan, fp, target, occupant, counted, fail) ==
    IF fail = "incoming" \/ ~Exists(fsys, fp)
    THEN Step(fsys, plan, target, occupant, counted \cup {"error"})
    ELSE Step(Move(fsys, fp, target), plan, target, occupant,
              counted \cup {"success"})

\* lines 253-280 for the branch of plan; counted = the counters it increments
Branch(plan, fp, fail) ==
    CASE plan.branch \in {"rename-raised", "unpack-raised"} ->
            Step(plan.fs, plan, NoPath, 0, {"error"})
      [] plan.branch = "skip" ->
            Step(plan.fs, plan, NoPath, At(plan.fs, plan.new_fp).file.id, {})
      [] plan.branch = "collision" ->
            \* dup_1 = duplicates/new_fp.name, dup_2 = duplicates/fp.name
            IF fail = "occupant"
            THEN Step(plan.fs, plan, Join(DuplicatesDir, fp),
                      At(plan.fs, plan.new_fp).file.id, {"duplicate", "error"})
            ELSE MoveIncoming(Move(plan.fs, plan.new_fp,
                                   Join(DuplicatesDir, plan.new_fp)),
                              plan, fp, Join(DuplicatesDir, fp),
                              At(plan.fs, plan.new_fp).file.id, {"duplicate"}, fail)
      [] plan.branch = "snapshot" ->
            MoveIncoming(plan.fs, plan, fp, Join(SnapshotDir, plan.new_fp), 0,
                         {"snapshot"}, fail)
      [] plan.branch = "direct" ->
            MoveIncoming(plan.fs, plan, fp, plan.new_fp, 0, {}, fail)

\* the whole loop body, lines 246-280
FitIteration(fsys, fp, hd, fail, loc) ==
    Branch(FitPlan(fsys, fp, hd, loc), fp, fail)

----------------------------------------------------------------------------
(* The files a run can start from *)

MaxFiles  == 3   \* files on disk at the start
MaxRuns   == 2   \* fit runs in a behaviour
MaxFaults == 1   \* filesystem failures raised by the environment in one run

Str19(y, mo, d, H, M, S) ==
    Pad4(y) \o <<":">> \o Pad2(mo) \o <<":">> \o Pad2(d) \o <<" ">>
    \o Pad2(H) \o <<":">> \o Pad2(M) \o <<":">> \o Pad2(S)

TimePlain  == Str19(2024, 12, 13, 20, 28, 39)
TimeMarked == Str19(2018, 5, 25, 21, 23, 28) \o Xiawu
\* the blank EXIF value "    :  :     :  :  "
TimeBlank  == <<" ", " ", " ", " ", ":", " ", " ", ":", " ", " ", " ",
                " ", " ", ":", " ", " ", ":", " ", " ">>
TimeText   == <<"a", "b", "c">>

StemA  == <<"2", "0", "2", "4", "1", "2", "1", "3", "2", "0", "2", "8", "3", "9",
            "_", "E", "O", "S", "-", "R", "_", "I", "M", "G", "-", "1">>
StemU  == <<"2", "0", "1", "8", "0", "5", "2", "5", "2", "1", "2", "3", "2", "8",
            "_", "U", "N", "K", "N", "O", "W", "N", "_", "M", "O", "V", "-", "2">>
StemE  == <<"E", "R", "R", "O", "R", "_", "A", "7", "_", "P", "4">>
ModelR == <<"E", "O", "S", " ", "R">>
ModelG == <<"S", "M", "_", "G", "9">>
ModelA == <<"A", "7">>

File(dir, stem, suffix, id, time, model) ==
    [path |-> PathOf(dir, stem, suffix),
     file |-> [id |-> id, time |-> time, model |-> model]]

Bucket(stem) == Take(stem, 6)

Catalog == <<
    File(ProcessDir("a"), <<"I", "M", "G", " ", "1">>, ".jpg", 1, TimePlain, ModelR),
    File(ProcessDir("b"), <<"I", "M", "G", "_", "1">>, ".jpg", 2, TimePlain, ModelR),
    File(ProcessDir("a"), StemA, ".jpg", 3, TimePlain, ModelR),
    File(ArchiveDir(Bucket(StemA), "p"), StemA, ".jpg", 4, TimePlain, ModelR),
    File(DuplicatesDir, StemA, ".jpg", 5, TimePlain, ModelR),
    File(ProcessDir("a"), <<"M", "O", "V", " ", "2">>, ".mp4", 6, TimeMarked, <<>>),
    File(ProcessDir("b"), <<"M", "O", "V", "_", "2">>, ".mp4", 7, TimeMarked, <<>>),
    File(ArchiveDir(Bucket(StemU), "v"), StemU, ".mp4", 8, TimeMarked, <<>>),
    File(ProcessDir("a"), <<"D", "S", "C", "3">>, ".JPG", 9, TimePlain, ModelG),
    File(ProcessDir("b"), <<"P", "4">>, ".jpg", 10, TimeBlank, ModelA),
    File(ArchiveDir(Bucket(StemE), "p"), StemE, ".jpg", 11, TimeBlank, ModelA),
    File(ProcessDir("a"), <<".", "_", "P", "4">>, ".jpg", 12, TimeBlank, <<>>),
    File(ProcessDir("b"), <<"n", "o", "t", "e", "s">>, ".txt", 13, TimeText, <<>>)
>>

InitialTrees ==
    {{Catalog[i] : i \in S} :
        S \in {T \in SUBSET (1..Len(Catalog)) : Cardinality(T) <= MaxFiles}}

NoLast == [fp |-> NoPath, id |-> 0, fail |-> "none", moved |-> {}, x |-> NoPath,
           new_fp |-> NoPath, target |-> NoPath, branch |-> "", model |-> <<>>,
           occupant |-> 0, counted |-> {}]

----------------------------------------------------------------------------
(* The archival engine *)

Init ==
    /\ fs \in InitialTrees
    /\ pc = "idle"
    /\ work_dir = "process"
    /\ handle_duplicate = TRUE
    /\ todo = {}
    /\ total_files = 0
    /\ success_count = 0
    /\ duplicate_count = 0
    /\ snapshot_count = 0
    /\ error_count = 0
    /\ skipped = 0
    /\ last = NoLast
    /\ fs0 = fs
    /\ runs = 0
    /\ faults = 0
    /\ locale_en = TRUE   \* the program never calls setlocale: LC_TIME is "C"
    /\ time_str = <<>>
    /\ tpc = "off"
    /\ result = <<>>

\* lines 212-242: fit(work_dir, handle_duplicate) up to the loop
StartFit ==
    /\ pc \in {"idle", "done"}
    /\ runs < MaxRuns
    /\ \E wd \in {"process", "archive"}, hd \in BOOLEAN :
          /\ work_dir' = wd
          /\ handle_duplicate' = hd
          /\ todo' = IterDir(fs, wd)
          /\ total_files' = Cardinality(IterDir(fs, wd))
    /\ pc' = "loop"
    /\ success_count' = 0
    /\ duplicate_count' = 0
    /\ snapshot_count' = 0
    /\ error_count' = 0
    /\ skipped' = 0
    /\ last' = NoLast
    /\ fs0' = fs
    /\ runs' = runs + 1
    /\ faults' = 0
    /\ UNCHANGED <<fs, locale_en, time_str, tpc, result>>

Bump(counter, name, it) == counter + (IF name \in it.counted THEN 1 ELSE 0)

\* the state after the loop body ran on fp with result it
Iterate(fp, fail, it) ==
    /\ faults' = faults + (IF fail = "none" THEN 0 ELSE 1)
    /\ fs' = it.fs
    /\ todo' = todo \ {fp}
    /\ success_count' = Bump(success_count, "success", it)
    /\ duplicate_count' = Bump(duplicate_count, "duplicate", it)
    /\ snapshot_count' = Bump(snapshot_count, "snapshot", it)
    /\ error_count' = Bump(error_count, "error", it)
    /\ skipped' = skipped + (IF it.branch = "skip" THEN 1 ELSE 0)
    /\ last' = [fp |-> fp,
                id |-> IF Exists(fs, fp) THEN At(fs, fp).file.id ELSE 0,
                fail |-> fail,
                moved |-> Ids((fs \ it.fs) \cup (it.fs \ fs)),
                x |-> it.x, new_fp |-> it.new_fp, target |-> it.target,
                branch |-> it.branch, model |-> it.model,
                occupant |-> it.occupant, counted |-> it.counted]

\* lines 245-287: the loop body for the next file of the walk
ProcessFile ==
    /\ pc = "loop"
    /\ \E fp \in todo :
         \E fail \in Faults(FitPlan(fs, fp, handle_duplicate, locale_en)) :
             /\ fail # "none" => faults < MaxFaults
             /\ Iterate(fp, fail,
                        FitIteration(fs, fp, handle_duplicate, fail, locale_en))
    /\ UNCHANGED <<pc, work_dir, handle_duplicate, total_files, fs0, runs,
                   locale_en, time_str, tpc, result>>

\* lines 289-302: the summary
FinishFit ==
    /\ pc = "loop"
    /\ todo = {}
    /\ pc' = "done"
    /\ UNCHANGED <<fs, work_dir, handle_duplicate, todo, total_files,
                   success_count, duplicate_count, snapshot_count, error_count,
                   skipped, last, fs0, runs, faults, locale_en, time_str, tpc,
                   result>>

Next == StartFit \/ ProcessFile \/ FinishFit

Spec == Init /\ [][Next]_vars

----------------------------------------------------------------------------
(* The normaliser on its own: one call of to_beijing_timestamp *)

Years   == {2018, 2024}
Months  == {2, 5}
Days    == {25, 29, 30}
Hours   == 0..24
Minutes == {23, 59}
Seconds == {28, 60}

TimeInputs ==
    {Str19(y, mo, d, H, M, S) \o mk :
        y \in Years, mo \in Months, d \in Days, H \in Hours, M \in Minutes,
        S \in Seconds, mk \in {<<>>, Shangwu, Xiawu}}
    \cup {TimeBlank, TimeText}

InitTS ==
    /\ time_str \in TimeInputs
    /\ locale_en \in BOOLEAN
    /\ tpc = "call"
    /\ result = <<>>
    /\ fs = {}
    /\ pc = "off"
    /\ work_dir = "process"
    /\ handle_duplicate = TRUE
    /\ todo = {}
    /\ total_files = 0
    /\ success_count = 0
    /\ duplicate_count = 0
    /\ snapshot_count = 0
    /\ error_count = 0
    /\ skipped = 0
    /\ last = NoLast
    /\ fs0 = {}
    /\ runs = 0
    /\ faults = 0

Return(path) ==
    /\ result' = to_beijing_timestamp(time_str, locale_en)
    /\ tpc' = path
    /\ UNCHANGED <<time_str, locale_en>>
    /\ UNCHANGED fitVars

\* lines 34-41: the marker replaced, strptime with %I and %p succeeds
ParseDirect ==
    /\ tpc = "call"
    /\ ExifShape(time_str) /\ HasMarker(time_str)
    /\ Strptime12(TimeClean(time_str), locale_en).ok
    /\ Return("direct")

\* lines 42-73: strptime raised ValueError, the fields are read by position
ParseTolerant ==
    /\ tpc = "call"
    /\ ExifShape(time_str) /\ HasMarker(time_str)
    /\ ~Strptime12(TimeClean(time_str), locale_en).ok
    /\ Return("tolerant")

\* lines 76-79: no marker
ParsePlain ==
    /\ tpc = "call"
    /\ ExifShape(time_str) /\ ~HasMarker(time_str)
    /\ Return("plain")

\* lines 82-96: not the EXIF shape
ParseGeneral ==
    /\ tpc = "call"
    /\ ~ExifShape(time_str)
    /\ Return("general")

NextTS == ParseDirect \/ ParseTolerant \/ ParsePlain \/ ParseGeneral

SpecTS == InitTS /\ [][NextTS]_vars

----------------------------------------------------------------------------
(* Properties.  `last` describes the latest loop iteration and fs is the disk *)
(* right after it; fs0 is the disk when the run started.                      *)

InDuplicates(id) == {e \in fs : e.file.id = id /\ e.path.dir = DuplicatesDir}

NoSpace(s) == \A i \in 1..Len(s) : s[i] # " "

\* {14 digits | ERROR}_{model-token}_{stem-token}
CanonicalForm(stem) ==
    LET parts == Split(stem, "_")
    IN /\ Len(parts) = 3
       /\ parts[1] = ERROR \/ (Len(parts[1]) = 14 /\ AllDigits(parts[1]))
       /\ NoSpace(parts[2]) /\ NoSpace(parts[3])

\* the file sits at archive/{YYYYMM}/{p|v}/{its own name}
AtOwnDestination(p) ==
    p.dir = ArchiveDir(Take(p.stem, 6),
                       IF Lower(p.suffix) \in TARGET_IMAGES THEN "p" ELSE "v")

\* C1: no file is lost by fit: every file on disk when the run started is
\* still on disk, somewhere, at every point of the run (no move lands on
\* another file).
C1_NoFileLost == Ids(fs0) \subseteq Ids(fs) /\ Cardinality(fs) = Cardinality(fs0)

\* C2: a file of the working directory whose model is UNKNOWN is routed to
\* snapshot/{canonical-name}, whether or not its dated archive destination
\* exists (no filesystem call being made to fail).
C2_UnknownToSnapshot ==
    (last.model = UNKNOWN /\ last.fail = "none" /\ last.fp.dir.area = "process")
        => /\ last.branch = "snapshot"
           /\ \E e \in fs : e.file.id = last.id
                            /\ e.path = Join(SnapshotDir, last.x)

\* C3: with duplicate handling enabled, after a collision between two
\* distinct files that was handled without an exception, both files are in
\* the duplicates area under two distinct names.
C3_BothInDuplicates ==
    (last.branch = "collision" /\ last.counted = {"duplicate", "success"}
     /\ last.occupant # last.id)
        => \E e1 \in InDuplicates(last.occupant), e2 \in InDuplicates(last.id) :
               e1.path # e2.path

\* C4: with duplicate handling disabled, an incoming file whose archive
\* destination exists stays where it was under its own name, the occupant
\* stays in the archive, and no directory entry and no counter changes.
C4_SkipLeavesUntouched ==
    last.branch = "skip"
        => /\ ~handle_duplicate
           /\ last.moved = {}
           /\ last.counted = {}
           /\ \E e \in fs : e.path = last.fp /\ e.file.id = last.id
           /\ \E e \in fs : e.path = last.new_fp /\ e.file.id = last.occupant

C4_Witness ==
    /\ last.branch = "skip"
    /\ ~handle_duplicate
    /\ last.fp # last.new_fp
    /\ last.fp # last.x
    /\ last.id # last.occupant
    /\ Exists(fs, last.fp) /\ Exists(fs, last.new_fp)

\* C5: an iteration that fails increments the error counter only, and
\* changes the location of no file other than the one it was processing.
C5_FailureIsolated ==
    "error" \in last.counted
        => last.counted = {"error"} /\ last.moved \subseteq {last.id}

\* C6: when the run ends, archived (success - snapshot), snapshot, duplicate,
\* error and skipped are all non-negative and sum to the number of files
\* found (stated here for the runs in which no filesystem call was made to
\* fail).
C6_CountsPartition ==
    (pc = "done" /\ faults = 0)
        => /\ success_count - snapshot_count >= 0
           /\ (success_count - snapshot_count) + snapshot_count + duplicate_count
                  + error_count + skipped = total_files

\* C7: the name rename returns has a stem of exactly three '_'-separated
\* fields, the model and stem tokens holding no space.
C7_ThreeFields ==
    last.x # NoPath
        => LET parts == Split(last.x.stem, "_")
           IN Len(parts) = 3 /\ NoSpace(parts[2]) /\ NoSpace(parts[3])

\* C8: rename returns a file whose name is already in canonical form
\* ({14 digits | ERROR}_{model}_{stem}) unchanged.
C8_Idempotent ==
    (last.fp # NoPath /\ last.branch # "rename-raised"
     /\ CanonicalForm(last.fp.stem))
        => last.x = last.fp

\* C9: a run with duplicate handling enabled over an archive whose eligible
\* files are all canonically named (with a known model) and at their own
\* destination, in which no filesystem call was made to fail, leaves the disk
\* as it was.
C9_RepeatRunNoop ==
    (pc = "done" /\ work_dir = "archive" /\ handle_duplicate /\ faults = 0
     /\ IterDir(fs0, "archive") # {}
     /\ \A p \in IterDir(fs0, "archive") :
            /\ AlreadyNamed(p.stem) /\ AtOwnDestination(p)
            /\ Split(p.stem, "_")[2] # UNKNOWN)
        => fs = fs0

\* the hour the tolerant rule gives
ExpectedHour(HH, marker) ==
    IF marker = Xiawu /\ HH < 12 THEN HH + 12
    ELSE IF marker = Shangwu /\ HH = 12 THEN 0
    ELSE HH

\* 'YYYY:MM:DD HH:MM:SS' with a valid date and time, then one marker
MarkedValid(s) ==
    /\ Len(s) = 21
    /\ ExifDigitsOk(s)
    /\ SubSeq(s, 20, 21) \in {Shangwu, Xiawu}
    /\ Field(s, 1, 4) >= 1000
    /\ Field(s, 6, 7) \in 1..12
    /\ Field(s, 9, 10) \in 1..DaysInMonth(Field(s, 1, 4), Field(s, 6, 7))
    /\ Field(s, 12, 13) \in 0..23
    /\ Field(s, 15, 16) \in 0..59
    /\ Field(s, 18, 19) \in 0..59

\* C10: for 'YYYY:MM:DD HH:MM:SS' + marker with a valid date and HH in 00..23,
\* to_beijing_timestamp returns the 14 digits made of the input's year, month,
\* day, minute and second and the hour of the tolerant rule (never ERROR),
\* whichever parse path was taken.
C10_TolerantRule ==
    (tpc # "call" /\ MarkedValid(time_str))
        => /\ tpc \in {"direct", "tolerant"}
           /\ result = SubSeq(time_str, 1, 4) \o SubSeq(time_str, 6, 7)
                       \o SubSeq(time_str, 9, 10)
                       \o Pad2(ExpectedHour(Field(time_str, 12, 13),
                                            SubSeq(time_str, 20, 21)))
                       \o SubSeq(time_str, 15, 16) \o SubSeq(time_str, 18, 19)

C10_Witness ==
    /\ tpc = "tolerant"
    /\ time_str = TimeMarked
    /\ result = <<"2", "0", "1", "8", "0", "5", "2", "5", "2", "1", "2", "3", "2", "8">>

====
